---- MODULE Spec2Model ----
(***************************************************************************)
(* A circular genome with transposable elements (src/src/genome.py).       *)
(* Two realizations of the Genome interface are modelled side by side:     *)
(* ListGenome (a Python list plus a dict id -> length) and                 *)
(* LinkedListGenome (a chain of Node objects plus a dict                   *)
(* id -> [anchor node, length]).  Every call is applied to both genomes,   *)
(* and the value returned (or the exception raised) by each is recorded.   *)
(*                                                                         *)
(* Encoding.  The Python value "-" of a list cell is 0 (TE ids start at    *)
(* 1); None is 0 as a return value and as a node reference; a dict is the  *)
(* sequence of its items in insertion order; a Node is a record in heap,   *)
(* addressed by its index (allocation appends).                            *)
(***************************************************************************)
EXTENDS Integers, Sequences, FiniteSets, TLC

\* Bounds of the explored inputs.
MaxN == 1
MaxTELen == 2
MaxPos == 2
MaxId == 2

VARIABLES lg, llg, last, hist

vars == <<lg, llg, last, hist>>

None == 0
Err == -1

----------------------------------------------------------------------------
\* Python built-ins used by the source.

\* a % b for b > 0: the non-negative residue.
PyMod(a, b) == a % b

\* [x] * k
Repeat(x, k) == [i \in 1..k |-> x]

\* xs[i] is defined for -len <= i < len.
IndexOk(n, i) == (-n <= i) /\ (i < n)

\* The 1-based place of xs[i].
IndexOf(n, i) == IF i < 0 THEN n + i + 1 ELSE i + 1

\* The 0-based start of the slice xs[i:i]: negative from the end, clamped.
SliceStart(n, i) == IF i < 0 THEN (IF n + i < 0 THEN 0 ELSE n + i) ELSE (IF i > n THEN n ELSE i)

\* xs[i:i] = ys
SliceInsert(xs, i, ys) == LET s == SliceStart(Len(xs), i) IN SubSeq(xs, 1, s) \o ys \o SubSeq(xs, s + 1, Len(xs))

\* xs.index(x): the 0-based place of the first x, Err when x is absent (ValueError).
ListIndex(xs, x) == IF \E i \in 1..Len(xs) : xs[i] = x THEN (CHOOSE i \in 1..Len(xs) : xs[i] = x /\ \A j \in 1..(i - 1) : xs[j] # x) - 1 ELSE Err

\* k in d
DictHas(d, k) == \E i \in 1..Len(d) : d[i].k = k

\* d[k]
DictGet(d, k) == d[CHOOSE i \in 1..Len(d) : d[i].k = k].v

\* del d[k]
DictDel(d, k) == SelectSeq(d, LAMBDA e : e.k # k)

\* d[k] = v
DictSet(d, k, v) == IF DictHas(d, k) THEN [i \in 1..Len(d) |-> IF d[i].k = k THEN [k |-> k, v |-> v] ELSE d[i]] ELSE Append(d, [k |-> k, v |-> v])

\* list(d.keys())
DictKeys(d) == [i \in 1..Len(d) |-> d[i].k]

\* The outcome of a call: the genome after it, the value returned, the exception raised.
Outcome(g, ret, exc) == [g |-> g, ret |-> ret, exc |-> exc]

----------------------------------------------------------------------------
\* class ListGenome

ListGenome_init(n) == [nucleotide |-> Repeat(0, n), active_TE |-> <<>>, te_id |-> 1]

\* insert_te with the id counter left as it was: the next TE gets the same id again.
ListGenome_insert_te_reuses_id(g, pos, length) ==
  LET n == Len(g.nucleotide) IN
  IF ~IndexOk(n, pos) THEN Outcome(g, None, "IndexError")
  ELSE LET at == g.nucleotide[IndexOf(n, pos)]
           act == IF DictHas(g.active_TE, at) THEN DictDel(g.active_TE, at) ELSE g.active_TE
           id == g.te_id
       IN Outcome([nucleotide |-> SliceInsert(g.nucleotide, pos, Repeat(id, length)),
                   active_TE |-> DictSet(act, id, length),
                   te_id |-> id], id, "none")

\* insert_te without the collision rule: the TE it lands on stays active.
ListGenome_insert_te_no_collision(g, pos, length) ==
  LET n == Len(g.nucleotide) IN
  IF ~IndexOk(n, pos) THEN Outcome(g, None, "IndexError")
  ELSE LET id == g.te_id
       IN Outcome([nucleotide |-> SliceInsert(g.nucleotide, pos, Repeat(id, length)),
                   active_TE |-> DictSet(g.active_TE, id, length),
                   te_id |-> id + 1], id, "none")

ListGenome_insert_te(g, pos, length) ==
  LET n == Len(g.nucleotide) IN
  IF ~IndexOk(n, pos) THEN Outcome(g, None, "IndexError")
  ELSE LET at == g.nucleotide[IndexOf(n, pos)]
           act == IF DictHas(g.active_TE, at) THEN DictDel(g.active_TE, at) ELSE g.active_TE
           id == g.te_id
       IN Outcome([nucleotide |-> SliceInsert(g.nucleotide, pos, Repeat(id, length)),
                   active_TE |-> DictSet(act, id, length),
                   te_id |-> id + 1], id, "none")

\* copy_te that takes the new id before it looks whether te is active.
ListGenome_copy_te_takes_id_first(g, te, offset) ==
  IF ~DictHas(g.active_TE, te) THEN Outcome([g EXCEPT !.te_id = g.te_id + 1], None, "none")
  ELSE LET pos == ListIndex(g.nucleotide, te)
           length == DictGet(g.active_TE, te)
       IN IF pos = Err THEN Outcome(g, None, "ValueError")
          ELSE IF Len(g.nucleotide) = 0 THEN Outcome(g, None, "ZeroDivisionError")
          ELSE ListGenome_insert_te(g, PyMod(pos + offset, Len(g.nucleotide)), length)

\* copy_te without the modulo: the offset is added to the position and nothing more.
ListGenome_copy_te_no_wrap(g, te, offset) ==
  IF ~DictHas(g.active_TE, te) THEN Outcome(g, None, "none")
  ELSE LET pos == ListIndex(g.nucleotide, te)
           length == DictGet(g.active_TE, te)
       IN IF pos = Err THEN Outcome(g, None, "ValueError")
          ELSE ListGenome_insert_te(g, pos + offset, length)

ListGenome_copy_te(g, te, offset) ==
  IF ~DictHas(g.active_TE, te) THEN Outcome(g, None, "none")
  ELSE LET pos == ListIndex(g.nucleotide, te)
           length == DictGet(g.active_TE, te)
       IN IF pos = Err THEN Outcome(g, None, "ValueError")
          ELSE IF Len(g.nucleotide) = 0 THEN Outcome(g, None, "ZeroDivisionError")
          ELSE ListGenome_insert_te(g, PyMod(pos + offset, Len(g.nucleotide)), length)

ListGenome_disable_te(g, te) ==
  IF DictHas(g.active_TE, te) THEN Outcome([g EXCEPT !.active_TE = DictDel(g.active_TE, te)], None, "none")
  ELSE Outcome(g, None, "none")

ListGenome_active_tes(g) == DictKeys(g.active_TE)

ListGenome_len(g) == Len(g.nucleotide)

ListGenome_str(g) == [i \in 1..Len(g.nucleotide) |-> IF g.nucleotide[i] = 0 THEN "-" ELSE IF DictHas(g.active_TE, g.nucleotide[i]) THEN "A" ELSE "x"]

----------------------------------------------------------------------------
\* class Node, class LinkedListGenome

Node(te) == [te |-> te, next |-> None, te_id |-> 0]

\* The last node of the chain from node: while current.next: current = current.next
RECURSIVE LastNode(_, _, _)
LastNode(heap, node, fuel) == IF heap[node].next = None \/ fuel = 0 THEN node ELSE LastNode(heap, heap[node].next, fuel - 1)

\* insert(te): a new node after the last one.
LinkedListGenome_insert(g, te) ==
  LET heap1 == Append(g.heap, Node(te))
      tail == LastNode(g.heap, g.head, Len(g.heap))
  IN [g EXCEPT !.heap = [heap1 EXCEPT ![tail].next = Len(heap1)]]

RECURSIVE InsertTimes(_, _, _)
InsertTimes(g, te, k) == IF k <= 0 THEN g ELSE InsertTimes(LinkedListGenome_insert(g, te), te, k - 1)

LinkedListGenome_init(n) ==
  LET g0 == [heap |-> <<Node(0)>>, head |-> 1, active_TE |-> <<>>, next_TE_id |-> 1, length |-> 0]
  IN [InsertTimes(g0, 0, n) EXCEPT !.length = n]

\* insert_in without "new.next = node.next": the chain ends at the new node.
LinkedListGenome_insert_in_drops_rest(heap, node, te) ==
  LET new == Len(heap) + 1
  IN [Append(heap, Node(te)) EXCEPT ![node].next = new]

\* insert_in(node, te): a new node right after node; returns it (the last of heap).
LinkedListGenome_insert_in(heap, node, te) ==
  LET new == Len(heap) + 1
  IN [Append(heap, [Node(te) EXCEPT !.next = heap[node].next]) EXCEPT ![node].next = new]

\* for _ in range(k): currentNode = currentNode.next   (Err: None.next was read)
RECURSIVE Walk(_, _, _)
Walk(heap, node, k) == IF k <= 0 THEN node ELSE IF node = None THEN Err ELSE Walk(heap, heap[node].next, k - 1)

\* The retagging loop stopped after the anchor: the other nodes of the TE stay active.
Retag_only_anchor(heap, node, k) == IF k <= 0 THEN [heap |-> heap, exc |-> "none"] ELSE IF node = None THEN [heap |-> heap, exc |-> "AttributeError"] ELSE [heap |-> [heap EXCEPT ![node].te = 2], exc |-> "none"]

\* disable_te's loop: retag k nodes from node.  (exc: None.te was written)
RECURSIVE Retag(_, _, _)
Retag(heap, node, k) == IF k <= 0 THEN [heap |-> heap, exc |-> "none"] ELSE IF node = None THEN [heap |-> heap, exc |-> "AttributeError"] ELSE Retag([heap EXCEPT ![node].te = 2], heap[node].next, k - 1)

LinkedListGenome_disable_te(g, te) ==
  IF ~DictHas(g.active_TE, te) THEN Outcome(g, None, "KeyError")
  ELSE LET e == DictGet(g.active_TE, te)
           r == Retag(g.heap, e[1], e[2])
       IN IF r.exc # "none" THEN Outcome([g EXCEPT !.heap = r.heap], None, r.exc)
          ELSE Outcome([g EXCEPT !.heap = r.heap, !.active_TE = DictDel(g.active_TE, te)], None, "none")

\* The loop without "if i == 0": every new node becomes the anchor, so the last one stays.
RECURSIVE InsertRun_anchors_last(_, _, _, _, _)
InsertRun_anchors_last(g, node, TE_ID, length, i) ==
  IF i >= length THEN g
  ELSE LET heap1 == LinkedListGenome_insert_in(g.heap, node, 1)
           new == Len(heap1)
           heap2 == [heap1 EXCEPT ![new].te_id = TE_ID]
           act == DictSet(g.active_TE, TE_ID, <<new, length>>)
       IN InsertRun_anchors_last([g EXCEPT !.heap = heap2, !.active_TE = act], new, TE_ID, length, i + 1)

\* The loop that writes the new TE: length nodes after node, the first one the anchor.
RECURSIVE InsertRun(_, _, _, _, _)
InsertRun(g, node, TE_ID, length, i) ==
  IF i >= length THEN g
  ELSE LET heap1 == LinkedListGenome_insert_in(g.heap, node, 1)
           new == Len(heap1)
           heap2 == [heap1 EXCEPT ![new].te_id = TE_ID]
           act == IF i = 0 THEN DictSet(g.active_TE, TE_ID, <<new, length>>) ELSE g.active_TE
       IN InsertRun([g EXCEPT !.heap = heap2, !.active_TE = act], new, TE_ID, length, i + 1)

\* insert_te that forgets "self.next_TE_id += 1": the next TE gets the same id again.
LinkedListGenome_insert_te_reuses_id(g, position0, length) ==
  IF g.length = 0 THEN Outcome(g, None, "ZeroDivisionError")
  ELSE LET position == PyMod(position0, g.length)
           TE_ID == g.next_TE_id
           insertionNode == Walk(g.heap, g.head, position - 1)
       IN IF insertionNode = Err \/ insertionNode = None THEN Outcome(g, None, "AttributeError")
          ELSE LET currentNode == g.heap[insertionNode].next
               IN IF currentNode = None THEN Outcome(g, None, "AttributeError")
                  ELSE LET d == IF g.heap[currentNode].te = 1 THEN LinkedListGenome_disable_te(g, g.heap[currentNode].te_id) ELSE Outcome(g, None, "none")
                       IN IF d.exc # "none" THEN d
                          ELSE LET g2 == InsertRun(d.g, insertionNode, TE_ID, length, 0)
                               IN Outcome([g2 EXCEPT !.length = g2.length + length], TE_ID, "none")

LinkedListGenome_insert_te(g, position0, length) ==
  IF g.length = 0 THEN Outcome(g, None, "ZeroDivisionError")
  ELSE LET position == PyMod(position0, g.length)
           TE_ID == g.next_TE_id
           insertionNode == Walk(g.heap, g.head, position - 1)
       IN IF insertionNode = Err \/ insertionNode = None THEN Outcome(g, None, "AttributeError")
          ELSE LET currentNode == g.heap[insertionNode].next
               IN IF currentNode = None THEN Outcome(g, None, "AttributeError")
                  ELSE LET d == IF g.heap[currentNode].te = 1 THEN LinkedListGenome_disable_te(g, g.heap[currentNode].te_id) ELSE Outcome(g, None, "none")
                       IN IF d.exc # "none" THEN d
                          ELSE LET g2 == InsertRun(d.g, insertionNode, TE_ID, length, 0)
                               IN Outcome([g2 EXCEPT !.next_TE_id = g2.next_TE_id + 1, !.length = g2.length + length], TE_ID, "none")

\* copy_te's search: the place of the first node whose te_id is te, within k steps.
RECURSIVE Find(_, _, _, _, _)
Find(heap, node, te, k, pos) == IF k <= 0 THEN pos ELSE IF node = None THEN Err ELSE IF heap[node].te_id = te THEN pos ELSE Find(heap, heap[node].next, te, k - 1, pos + 1)

LinkedListGenome_copy_te(g, te, offset) ==
  IF ~DictHas(g.active_TE, te) THEN Outcome(g, None, "none")
  ELSE LET found == Find(g.heap, g.head, te, g.length, 0) IN
       IF found = Err THEN Outcome(g, None, "AttributeError")
       ELSE IF g.length = 0 THEN Outcome(g, None, "ZeroDivisionError")
       ELSE LET TE_ID == g.next_TE_id
                pos == found + PyMod(offset, g.length)
                insertionNode == Walk(g.heap, g.head, pos - 1)
                length == DictGet(g.active_TE, te)[2]
            IN IF insertionNode = Err \/ insertionNode = None THEN Outcome(g, None, "AttributeError")
               ELSE LET currentNode == g.heap[insertionNode].next
                    IN IF currentNode = None THEN Outcome(g, None, "AttributeError")
                       ELSE LET d == IF g.heap[currentNode].te = 1 THEN LinkedListGenome_disable_te(g, g.heap[currentNode].te_id) ELSE Outcome(g, None, "none")
                            IN IF d.exc # "none" THEN d
                               ELSE LET g2 == InsertRun(d.g, insertionNode, TE_ID, length, 0)
                                    IN Outcome([g2 EXCEPT !.next_TE_id = g2.next_TE_id + 1, !.length = g2.length + length], TE_ID, "none")

LinkedListGenome_active_tes(g) == DictKeys(g.active_TE)

\* The nodes visited by "while last.next: ...; last = last.next" from head, in order
\* (the node whose next is None ends the loop and is not visited).
RECURSIVE Visited(_, _, _)
Visited(heap, node, fuel) == IF heap[node].next = None \/ fuel = 0 THEN <<>> ELSE <<node>> \o Visited(heap, heap[node].next, fuel - 1)

LinkedListGenome_len(g) == Len(Visited(g.heap, g.head, Len(g.heap) + 1))

\* __str__ with "while last:" for "while last.next:": the last node is rendered too.
LinkedListGenome_str_renders_last(g) ==
  LET vs == Visited(g.heap, g.head, Len(g.heap) + 1) \o <<LastNode(g.heap, g.head, Len(g.heap) + 1)>>
  IN [i \in 1..Len(vs) |-> IF g.heap[vs[i]].te = 1 THEN "A" ELSE IF g.heap[vs[i]].te = 2 THEN "x" ELSE "-"]

LinkedListGenome_str(g) ==
  LET vs == Visited(g.heap, g.head, Len(g.heap) + 1)
  IN [i \in 1..Len(vs) |-> IF g.heap[vs[i]].te = 1 THEN "A" ELSE IF g.heap[vs[i]].te = 2 THEN "x" ELSE "-"]

----------------------------------------------------------------------------
\* The driver: one genome of each class, the same calls on both.  In each action l
\* and ll are the outcomes of the call on the ListGenome and on the LinkedListGenome
\* (bound by \E over a one-element set, so that each call is evaluated once).

\* The ids handed out so far by either genome, and the first one not handed out.
KnownIds == 1..(IF lg.te_id >= llg.next_TE_id THEN lg.te_id ELSE llg.next_TE_id)

\* The TEs created so far: the id each successful insert_te/copy_te returned and the
\* length it inserted, in call order.
Created(h, out, length) == IF out.exc = "none" /\ out.ret # None THEN Append(h, [id |-> out.ret, length |-> length]) ELSE h

\* The length copy_te(te, _) inserts: the one the active index holds for te.
ListCopyLength(g, te) == IF DictHas(g.active_TE, te) THEN DictGet(g.active_TE, te) ELSE 0

LinkedCopyLength(g, te) == IF DictHas(g.active_TE, te) THEN DictGet(g.active_TE, te)[2] ELSE 0

Call(op, a, b, l, ll) == [op |-> op, a |-> a, b |-> b, l |-> [ret |-> l.ret, exc |-> l.exc], ll |-> [ret |-> ll.ret, exc |-> ll.exc]]

Init ==
  \E n \in 1..MaxN :
    /\ lg = ListGenome_init(n)
    /\ llg = LinkedListGenome_init(n)
    /\ last = Call("create", n, 0, Outcome(0, None, "none"), Outcome(0, None, "none"))
    /\ hist = [n |-> n, l_created |-> <<>>, ll_created |-> <<>>]

InsertTe ==
  \E pos \in (-MaxPos)..MaxPos, length \in 0..MaxTELen :
    /\ lg.te_id <= MaxId
    /\ llg.next_TE_id <= MaxId
    /\ \E l \in {ListGenome_insert_te(lg, pos, length)}, ll \in {LinkedListGenome_insert_te(llg, pos, length)} :
          /\ lg' = l.g
          /\ llg' = ll.g
          /\ last' = Call("insert_te", pos, length, l, ll)
          /\ hist' = [hist EXCEPT !.l_created = Created(@, l, length), !.ll_created = Created(@, ll, length)]

CopyTe ==
  \E te \in KnownIds, offset \in (-MaxPos)..MaxPos :
    /\ lg.te_id <= MaxId
    /\ llg.next_TE_id <= MaxId
    /\ \E l \in {ListGenome_copy_te(lg, te, offset)}, ll \in {LinkedListGenome_copy_te(llg, te, offset)} :
          /\ lg' = l.g
          /\ llg' = ll.g
          /\ last' = Call("copy_te", te, offset, l, ll)
          /\ hist' = [hist EXCEPT !.l_created = Created(@, l, ListCopyLength(lg, te)), !.ll_created = Created(@, ll, LinkedCopyLength(llg, te))]

DisableTe ==
  \E te \in KnownIds :
    /\ \E l \in {ListGenome_disable_te(lg, te)}, ll \in {LinkedListGenome_disable_te(llg, te)} :
          /\ lg' = l.g
          /\ llg' = ll.g
          /\ last' = Call("disable_te", te, 0, l, ll)
    /\ UNCHANGED hist

Next == InsertTe \/ CopyTe \/ DisableTe

Spec == Init /\ [][Next]_vars

----------------------------------------------------------------------------
\* What a caller can observe of a genome, and who owns each rendered position.

ListObs(g) == [active |-> ListGenome_active_tes(g), len |-> ListGenome_len(g), str |-> ListGenome_str(g)]

LinkedObs(g) == [active |-> LinkedListGenome_active_tes(g), len |-> LinkedListGenome_len(g), str |-> LinkedListGenome_str(g)]

\* The id owning each rendered position (0: no TE).
ListOwners(g) == g.nucleotide

LinkedOwners(g) == LET vs == Visited(g.heap, g.head, Len(g.heap) + 1) IN [i \in 1..Len(vs) |-> g.heap[vs[i]].te_id]

Range(f) == {f[i] : i \in DOMAIN f}

\* The 0-based place of the first position owned by te (Err: te owns none).
FirstOwned(own, te) == ListIndex(own, te)

----------------------------------------------------------------------------
\* C1: the two realizations are observably identical: after every call, the value
\* returned (or exception raised) and active_tes(), len() and str() are the same
\* for the ListGenome and the LinkedListGenome.
C1_ObservablyIdentical == (last.l = last.ll) /\ (ListObs(lg) = LinkedObs(llg))

\* Collision-disable for one realization, in terms of what is rendered: own/str/act
\* before the call insert_te(pos, length), own2/str2/act2 after it.
CollisionDisabled(own, str, own2, str2, act2, pos, length) ==
  LET L == Len(own)
      p == PyMod(pos, L)
      t == own[p + 1]
  IN (t # 0 /\ str[p + 1] = "A") =>
       /\ t \notin Range(act2)
       /\ \A i \in 1..L : (own[i] = t) =>
            LET j == IF i - 1 < p THEN i ELSE i + length
            IN j <= Len(str2) /\ own2[j] = t /\ str2[j] = "x"

\* C2: when insert_te(pos, length) is called and the position at pos mod len is owned
\* by an active TE t, then afterwards t is not active and every position of t is
\* rendered 'x', in both realizations.
C2_CollisionDisable ==
  [][(last'.op = "insert_te") =>
       /\ CollisionDisabled(ListOwners(lg), ListGenome_str(lg), ListOwners(lg'), ListGenome_str(lg'), ListGenome_active_tes(lg'), last'.a, last'.b)
       /\ CollisionDisabled(LinkedOwners(llg), LinkedListGenome_str(llg), LinkedOwners(llg'), LinkedListGenome_str(llg'), LinkedListGenome_active_tes(llg'), last'.a, last'.b)]_vars

\* Placement for one realization: the new TE newid is rendered 'A' at the 0-based
\* positions pos .. pos+length-1, older positions below pos stay, the others move up
\* by length.
Placed(own, own2, str2, pos, length, newid) ==
  /\ Len(own2) = Len(own) + length
  /\ \A k \in (pos + 1)..(pos + length) : own2[k] = newid /\ str2[k] = "A"
  /\ \A i \in 1..pos : own2[i] = own[i]
  /\ \A i \in (pos + 1)..Len(own) : own2[i + length] = own[i]

\* C3: for 0 <= pos < len and length >= 1, after insert_te(pos, length) the new TE is
\* rendered 'A' at exactly pos .. pos+length-1, every old position below pos keeps its
\* place and every old position at or after pos is found length places further, in
\* both realizations.
C3_InsertPlacement ==
  [][(last'.op = "insert_te" /\ last'.b >= 1) =>
       /\ (0 <= last'.a /\ last'.a < ListGenome_len(lg)) =>
            (last'.l.exc = "none" /\ Placed(ListOwners(lg), ListOwners(lg'), ListGenome_str(lg'), last'.a, last'.b, last'.l.ret))
       /\ (0 <= last'.a /\ last'.a < LinkedListGenome_len(llg)) =>
            (last'.ll.exc = "none" /\ Placed(LinkedOwners(llg), LinkedOwners(llg'), LinkedListGenome_str(llg'), last'.a, last'.b, last'.ll.ret))]_vars

\* C4: copy_te(te, offset) of an active te whose first position is s and whose length
\* is k does not raise, returns the new id, and leaves the genome rendering, length
\* and active set that insert_te((s + offset) mod len, k) leaves, in both realizations.
C4_CopyWraps ==
  [][(last'.op = "copy_te") =>
       /\ (DictHas(lg.active_TE, last'.a) /\ FirstOwned(ListOwners(lg), last'.a) # Err) =>
            LET s == FirstOwned(ListOwners(lg), last'.a)
                k == ListCopyLength(lg, last'.a)
                ins == ListGenome_insert_te(lg, PyMod(s + last'.b, ListGenome_len(lg)), k)
            IN last'.l.exc = "none" /\ last'.l.ret = lg.te_id /\ ListObs(lg') = ListObs(ins.g)
       /\ (DictHas(llg.active_TE, last'.a) /\ FirstOwned(LinkedOwners(llg), last'.a) # Err) =>
            LET s == FirstOwned(LinkedOwners(llg), last'.a)
                k == LinkedCopyLength(llg, last'.a)
                ins == LinkedListGenome_insert_te(llg, PyMod(s + last'.b, LinkedListGenome_len(llg)), k)
            IN last'.ll.exc = "none" /\ last'.ll.ret = llg.next_TE_id /\ LinkedObs(llg') = LinkedObs(ins.g)]_vars

\* C5: disable_te of an id that is not active (never created, or disabled before)
\* does not raise and leaves len(), active_tes() and str() as they were, in both
\* realizations.
C5_DisableInactiveNoOp ==
  [][(last'.op = "disable_te") =>
       /\ (~DictHas(lg.active_TE, last'.a)) => (last'.l.exc = "none" /\ ListObs(lg') = ListObs(lg))
       /\ (~DictHas(llg.active_TE, last'.a)) => (last'.ll.exc = "none" /\ LinkedObs(llg') = LinkedObs(llg))]_vars

\* C6: copy_te(x, offset) of an id x that is not active returns None, leaves len(),
\* active_tes() and str() as they were, and does not take an id: the next insert_te
\* returns the id it would have returned without the call; in both realizations.
C6_CopyInactiveNoOp ==
  [][(last'.op = "copy_te") =>
       /\ (last'.a \notin Range(ListGenome_active_tes(lg))) =>
            /\ last'.l = [ret |-> None, exc |-> "none"]
            /\ ListObs(lg') = ListObs(lg)
            /\ ListGenome_insert_te(lg', 0, 1).ret = ListGenome_insert_te(lg, 0, 1).ret
       /\ (last'.a \notin Range(LinkedListGenome_active_tes(llg))) =>
            /\ last'.ll = [ret |-> None, exc |-> "none"]
            /\ LinkedObs(llg') = LinkedObs(llg)
            /\ LinkedListGenome_insert_te(llg', 0, 1).ret = LinkedListGenome_insert_te(llg, 0, 1).ret]_vars

\* The ids returned so far.
Ids(h) == [i \in 1..Len(h) |-> h[i].id]

\* C6 happens: a copy_te of an id that was created and then disabled has returned
\* None in both realizations.
C6_Witness ==
  /\ last.op = "copy_te"
  /\ last.l = [ret |-> None, exc |-> "none"]
  /\ last.ll = [ret |-> None, exc |-> "none"]
  /\ last.a \in Range(Ids(hist.l_created)) /\ last.a \notin Range(ListGenome_active_tes(lg))
  /\ last.a \in Range(Ids(hist.ll_created)) /\ last.a \notin Range(LinkedListGenome_active_tes(llg))

\* C7: insert_te(pos, length) with any integer pos does not raise and has the effect
\* and the result of insert_te(pos mod len, length), in both realizations.
C7_OutOfRangeNormalized ==
  [][(last'.op = "insert_te") =>
       /\ LET ref == ListGenome_insert_te(lg, PyMod(last'.a, ListGenome_len(lg)), last'.b)
          IN last'.l.exc = "none" /\ last'.l.ret = ref.ret /\ ListObs(lg') = ListObs(ref.g)
       /\ LET ref == LinkedListGenome_insert_te(llg, PyMod(last'.a, LinkedListGenome_len(llg)), last'.b)
          IN last'.ll.exc = "none" /\ last'.ll.ret = ref.ret /\ LinkedObs(llg') = LinkedObs(ref.g)]_vars

RECURSIVE SumLengths(_)
SumLengths(h) == IF h = <<>> THEN 0 ELSE h[1].length + SumLengths(Tail(h))

\* C8: len(g) is n plus the lengths of all TEs created so far; every insert_te(pos,
\* length) and every copy_te of an active TE adds exactly the inserted length to
\* len(g); disable_te and copy_te of an inactive TE leave len(g) as it was; in both
\* realizations.
C8_LengthAccounting ==
  [][/\ ListGenome_len(lg') = hist'.n + SumLengths(hist'.l_created)
     /\ LinkedListGenome_len(llg') = hist'.n + SumLengths(hist'.ll_created)
     /\ (last'.op = "insert_te") =>
          /\ ListGenome_len(lg') = ListGenome_len(lg) + last'.b
          /\ LinkedListGenome_len(llg') = LinkedListGenome_len(llg) + last'.b
     /\ (last'.op = "copy_te") =>
          /\ ListGenome_len(lg') = ListGenome_len(lg) + ListCopyLength(lg, last'.a)
          /\ LinkedListGenome_len(llg') = LinkedListGenome_len(llg) + LinkedCopyLength(llg, last'.a)
     /\ (last'.op = "disable_te") =>
          /\ ListGenome_len(lg') = ListGenome_len(lg)
          /\ LinkedListGenome_len(llg') = LinkedListGenome_len(llg)]_vars

\* C9: the ids returned by the successful insert_te and copy_te calls are 1, 2, 3, ...
\* in call order, in both realizations (so no id is returned twice, also not after
\* its TE was disabled).
C9_IdsInCallOrder ==
  /\ \A i \in 1..Len(hist.l_created) : hist.l_created[i].id = i
  /\ \A i \in 1..Len(hist.ll_created) : hist.ll_created[i].id = i

\* C9 happens: both realizations have returned two ids, the second one after the TE
\* with the first was disabled.
C9_Witness ==
  /\ Len(hist.l_created) >= 2 /\ 1 \notin Range(ListGenome_active_tes(lg))
  /\ Len(hist.ll_created) >= 2 /\ 1 \notin Range(LinkedListGenome_active_tes(llg))
  /\ last.op \in {"insert_te", "copy_te"} /\ last.l.ret = 2 /\ last.ll.ret = 2

\* The ids that own at least one position rendered 'A'.
OwnersOfA(own, str) == {own[i] : i \in {j \in 1..Len(own) : str[j] = "A"}}

\* C10: active_tes() is exactly the set of ids that own at least one position
\* rendered 'A', in both realizations.
C10_ActiveIndexMatchesTags ==
  /\ Range(ListGenome_active_tes(lg)) = OwnersOfA(ListOwners(lg), ListGenome_str(lg))
  /\ Range(LinkedListGenome_active_tes(llg)) = OwnersOfA(LinkedOwners(llg), LinkedListGenome_str(llg))

\* The positions owned by t form one run in circular order: at most one of them has
\* a successor (the first position follows the last) that t does not own.
Contiguous(own, t) ==
  LET L == Len(own)
  IN Cardinality({i \in 1..L : own[i] = t /\ own[IF i = L THEN 1 ELSE i + 1] # t}) <= 1

\* All positions owned by t are rendered alike.
OneStatus(own, str, t) == \E s \in {"-", "A", "x"} : \A i \in 1..Len(own) : (own[i] = t) => str[i] = s

TEsOf(own) == Range(own) \ {0}

\* Every id that owns positions has them rendered alike, and every id of act has
\* them in one run.
RunsOk(own, str, act) == \A t \in TEsOf(own) : OneStatus(own, str, t) /\ ((t \in act) => Contiguous(own, t))

\* C11 as stated: after every operation the positions of every TE id, active or
\* disabled, form a single contiguous run in circular order and share one status,
\* in both realizations.
C11_ContiguousAll ==
  /\ RunsOk(ListOwners(lg), ListGenome_str(lg), TEsOf(ListOwners(lg)))
  /\ RunsOk(LinkedOwners(llg), LinkedListGenome_str(llg), TEsOf(LinkedOwners(llg)))

\* C11 amended: the positions of every id share one status, and the positions of
\* every active id form a single contiguous run in circular order, in both
\* realizations (an insertion strictly inside a TE disables it and splits it).
C11_ContiguousActive ==
  /\ RunsOk(ListOwners(lg), ListGenome_str(lg), Range(ListGenome_active_tes(lg)))
  /\ RunsOk(LinkedOwners(llg), LinkedListGenome_str(llg), Range(LinkedListGenome_active_tes(llg)))

\* C11 happens: in both realizations a TE of two positions was split by an insertion
\* strictly inside it, and the TE inserted there is active with two positions.
C11_Witness ==
  /\ \E t \in TEsOf(ListOwners(lg)) : ~Contiguous(ListOwners(lg), t)
  /\ \E t \in TEsOf(LinkedOwners(llg)) : ~Contiguous(LinkedOwners(llg), t)
  /\ \E t \in Range(ListGenome_active_tes(lg)) : Cardinality({i \in 1..Len(lg.nucleotide) : lg.nucleotide[i] = t}) = 2
  /\ \E t \in Range(LinkedListGenome_active_tes(llg)) : Cardinality({i \in 1..Len(LinkedOwners(llg)) : LinkedOwners(llg)[i] = t}) = 2

\* An id that is active after a call (act2) and was not before it (act) is the id
\* the call returned (ret), returned for the first time (made: the ids returned
\* before the call).
EntersActiveOnce(act, act2, made, ret) == \A t \in Range(act2) \ Range(act) : t = ret /\ t \notin Range(Ids(made))

\* Every position rendered 'A' belongs to an active id.
OnlyActiveRendersA ==
  /\ OwnersOfA(ListOwners(lg), ListGenome_str(lg)) \subseteq Range(ListGenome_active_tes(lg))
  /\ OwnersOfA(LinkedOwners(llg), LinkedListGenome_str(llg)) \subseteq Range(LinkedListGenome_active_tes(llg))

\* C12: an id becomes active only when insert_te or copy_te returns it for the first
\* time; once it has left active_tes() it never enters it again, and no position of
\* an id that is not active is rendered 'A'; in both realizations.
C12_NoWayBackToActive ==
  /\ []OnlyActiveRendersA
  /\ [][/\ EntersActiveOnce(ListGenome_active_tes(lg), ListGenome_active_tes(lg'), hist.l_created, last'.l.ret)
        /\ EntersActiveOnce(LinkedListGenome_active_tes(llg), LinkedListGenome_active_tes(llg'), hist.ll_created, last'.ll.ret)]_vars

\* C12 happens: in both realizations TE 1 was created and is no longer active, its
\* positions are still there, and a later call (disable_te of the active TE 2) has
\* acted.
C12_Witness ==
  /\ last.op = "disable_te" /\ last.a = 2 /\ last.l.exc = "none" /\ last.ll.exc = "none"
  /\ 2 \in Range(Ids(hist.l_created)) /\ 2 \in Range(Ids(hist.ll_created))
  /\ 1 \in TEsOf(ListOwners(lg)) /\ 1 \notin Range(ListGenome_active_tes(lg))
  /\ 1 \in TEsOf(LinkedOwners(llg)) /\ 1 \notin Range(LinkedListGenome_active_tes(llg))

\* disable_te(te) of an active te, for one realization: obs/own before the call,
\* obs2/own2 after it, exc what it raised.
DisabledOnly(obs, own, obs2, own2, te, exc) ==
  /\ exc = "none"
  /\ obs2.active = SelectSeq(obs.active, LAMBDA t : t # te)
  /\ obs2.len = obs.len
  /\ own2 = own
  /\ \A i \in 1..Len(own) : IF own[i] = te THEN (obs.str[i] = "A" /\ obs2.str[i] = "x") ELSE obs2.str[i] = obs.str[i]

\* C13: disable_te(te) of an active te removes te from active_tes(), turns every
\* position of te from 'A' to 'x' and changes nothing else: len() is the same, the
\* other ids are active or not as before, the other positions render as before; in
\* both realizations.
C13_DisableEffectAndFrame ==
  [][(last'.op = "disable_te") =>
       /\ (last'.a \in Range(ListGenome_active_tes(lg))) =>
            \A obs \in {ListObs(lg)}, obs2 \in {ListObs(lg')} :
               DisabledOnly(obs, ListOwners(lg), obs2, ListOwners(lg'), last'.a, last'.l.exc)
       /\ (last'.a \in Range(LinkedListGenome_active_tes(llg))) =>
            \A obs \in {LinkedObs(llg)}, own \in {LinkedOwners(llg)}, obs2 \in {LinkedObs(llg')}, own2 \in {LinkedOwners(llg')} :
               DisabledOnly(obs, own, obs2, own2, last'.a, last'.ll.exc)]_vars

\* No position of t is directly followed by a position of u.
NotBefore(own, t, u) == \A i \in 1..(Len(own) - 1) : ~(own[i] = t /\ own[i + 1] = u)

\* C13 happens: disable_te(1) has returned in both realizations, TE 1 has two
\* positions, none of them active, and TE 2 is still active; TE 2 was not inserted
\* onto TE 1 in the list genome and the linked disable_te found TE 1 active, so it is
\* this call that disabled TE 1.
C13_Witness ==
  /\ last.op = "disable_te" /\ last.a = 1 /\ last.l.exc = "none" /\ last.ll.exc = "none"
  /\ Cardinality({i \in 1..Len(lg.nucleotide) : lg.nucleotide[i] = 1}) = 2
  /\ Cardinality({i \in 1..Len(LinkedOwners(llg)) : LinkedOwners(llg)[i] = 1}) = 2
  /\ ListGenome_active_tes(lg) = <<2>> /\ LinkedListGenome_active_tes(llg) = <<2>>
  /\ 2 \in TEsOf(ListOwners(lg)) /\ NotBefore(ListOwners(lg), 2, 1)
  /\ 1 \notin OwnersOfA(ListOwners(lg), ListGenome_str(lg)) /\ 1 \notin OwnersOfA(LinkedOwners(llg), LinkedListGenome_str(llg))

\* The render s has length n and only the three characters.
WellRendered(s, n) == Len(s) = n /\ Range(s) \subseteq {"-", "A", "x"}

\* C14: in every reachable state len(str(g)) == len(g) and every character of
\* str(g) is one of '-', 'A', 'x'; in both realizations.
C14_RenderLength ==
  /\ WellRendered(ListGenome_str(lg), ListGenome_len(lg))
  /\ WellRendered(LinkedListGenome_str(llg), LinkedListGenome_len(llg))

\* C14 happens: both renders have grown and show all three characters.
C14_Witness ==
  /\ Range(ListGenome_str(lg)) = {"-", "A", "x"} /\ ListGenome_len(lg) > MaxN
  /\ Range(LinkedListGenome_str(llg)) = {"-", "A", "x"} /\ LinkedListGenome_len(llg) > MaxN

\* C15: for an active te, copy_te(te, offset) and copy_te(te, offset - len(g)), each
\* applied to the same starting state, do the same: the same value returned (or
\* exception raised) and the same genome afterwards, hence the same start position
\* of the copy, render, length and active set; in both realizations.
C15_OffsetCircular ==
  [][(last'.op = "copy_te") =>
       /\ (last'.a \in Range(ListGenome_active_tes(lg))) =>
            Outcome(lg', last'.l.ret, last'.l.exc) = ListGenome_copy_te(lg, last'.a, last'.b - ListGenome_len(lg))
       /\ (last'.a \in Range(LinkedListGenome_active_tes(llg))) =>
            Outcome(llg', last'.ll.ret, last'.ll.exc) = LinkedListGenome_copy_te(llg, last'.a, last'.b - LinkedListGenome_len(llg))]_vars

\* C15 happens: copy_te with a negative offset (wrapping below position 0 in the list
\* genome) has placed a copy with positions of its own in both realizations.
C15_Witness ==
  /\ last.op = "copy_te" /\ last.b < 0
  /\ last.l.exc = "none" /\ last.l.ret # None /\ last.l.ret \in TEsOf(ListOwners(lg))
  /\ last.ll.exc = "none" /\ last.ll.ret # None /\ last.ll.ret \in TEsOf(LinkedOwners(llg))

-----------------------------------------------------------------------------
\* The genomes of the scenario: create(10), then insert_te, copy_te and disable_te
\* with the scenario's arguments, in any order, until three TEs exist.

ScenarioPositions == {2}

ScenarioLengths == {2, 3}

ScenarioOffsets == {5}

ScenarioTEs == 1..3

ScenarioUnknownTEs == {99}

ScenarioInit ==
  \E n \in {10} :
    /\ lg = ListGenome_init(n)
    /\ llg = LinkedListGenome_init(n)
    /\ last = Call("create", n, 0, Outcome(0, None, "none"), Outcome(0, None, "none"))
    /\ hist = [n |-> n, l_created |-> <<>>, ll_created |-> <<>>]

ScenarioInsertTe ==
  \E pos \in ScenarioPositions, length \in ScenarioLengths :
    /\ lg.te_id \in ScenarioTEs
    /\ llg.next_TE_id \in ScenarioTEs
    /\ \E l \in {ListGenome_insert_te(lg, pos, length)}, ll \in {LinkedListGenome_insert_te(llg, pos, length)} :
          /\ lg' = l.g
          /\ llg' = ll.g
          /\ last' = Call("insert_te", pos, length, l, ll)
          /\ hist' = [hist EXCEPT !.l_created = Created(@, l, length), !.ll_created = Created(@, ll, length)]

ScenarioCopyTe ==
  \E te \in ScenarioTEs, offset \in ScenarioOffsets :
    /\ lg.te_id \in ScenarioTEs
    /\ llg.next_TE_id \in ScenarioTEs
    /\ \E l \in {ListGenome_copy_te(lg, te, offset)}, ll \in {LinkedListGenome_copy_te(llg, te, offset)} :
          /\ lg' = l.g
          /\ llg' = ll.g
          /\ last' = Call("copy_te", te, offset, l, ll)
          /\ hist' = [hist EXCEPT !.l_created = Created(@, l, ListCopyLength(lg, te)), !.ll_created = Created(@, ll, LinkedCopyLength(llg, te))]

ScenarioDisableTe ==
  \E te \in ScenarioTEs \cup ScenarioUnknownTEs :
    /\ \E l \in {ListGenome_disable_te(lg, te)}, ll \in {LinkedListGenome_disable_te(llg, te)} :
          /\ lg' = l.g
          /\ llg' = ll.g
          /\ last' = Call("disable_te", te, 0, l, ll)
    /\ UNCHANGED hist

ScenarioNext == ScenarioInsertTe \/ ScenarioCopyTe \/ ScenarioDisableTe

Scenario == ScenarioInit /\ [][ScenarioNext]_vars

\* The call c is op(a, b).
IsCall(c, op, a, b) == c.op = op /\ c.a = a /\ c.b = b

\* One call of the scenario, for one realization: at is how far the scenario has
\* come before the call (0: created, .. 3: copied; -1: not a state of the scenario),
\* obs the observations before the call, obs2 after it, c the call, r its result.
ScenarioStep(at, obs, obs2, c, r) ==
  /\ (at = 0) => obs.str = Repeat("-", 10)
  /\ (at = 0 /\ IsCall(c, "insert_te", 2, 3)) => (r.exc = "none" /\ r.ret = 1 /\ obs2.len = 13)
  /\ (at = 1 /\ IsCall(c, "insert_te", 2, 2)) =>
       (r.exc = "none" /\ r.ret = 2 /\ obs2.len = 15 /\ obs2.active = <<2>>)
  /\ (at = 2 /\ IsCall(c, "copy_te", 2, 5)) => (r.exc = "none" /\ r.ret = 3 /\ Range(obs2.active) = {2, 3})
  /\ (at = 3 /\ IsCall(c, "disable_te", 99, 0)) => (r.exc = "none" /\ obs2 = obs)

ListScenario0 == ListGenome_init(10)

ListScenario1 == ListGenome_insert_te(ListScenario0, 2, 3).g

ListScenario2 == ListGenome_insert_te(ListScenario1, 2, 2).g

ListScenario3 == ListGenome_copy_te(ListScenario2, 2, 5).g

LinkedScenario0 == LinkedListGenome_init(10)

LinkedScenario1 == LinkedListGenome_insert_te(LinkedScenario0, 2, 3).g

LinkedScenario2 == LinkedListGenome_insert_te(LinkedScenario1, 2, 2).g

LinkedScenario3 == LinkedListGenome_copy_te(LinkedScenario2, 2, 5).g

ListScenarioAt(g) == IF g = ListScenario0 THEN 0 ELSE IF g = ListScenario1 THEN 1 ELSE IF g = ListScenario2 THEN 2 ELSE IF g = ListScenario3 THEN 3 ELSE -1

LinkedScenarioAt(g) == IF g = LinkedScenario0 THEN 0 ELSE IF g = LinkedScenario1 THEN 1 ELSE IF g = LinkedScenario2 THEN 2 ELSE IF g = LinkedScenario3 THEN 3 ELSE -1

\* C16: the scenario, in both realizations: create(10) renders "----------";
\* insert_te(2, 3) returns 1 and len becomes 13; insert_te(2, 2) returns 2, disables
\* id 1, len becomes 15 and active_tes() is {2}; copy_te(2, 5) returns 3 and
\* active_tes() is {2, 3}; disable_te(99) then leaves len, active_tes() and the
\* render unchanged.
C16_Scenario ==
  [][/\ ScenarioStep(ListScenarioAt(lg), ListObs(lg), ListObs(lg'), last', last'.l)
     /\ ScenarioStep(LinkedScenarioAt(llg), LinkedObs(llg), LinkedObs(llg'), last', last'.ll)]_vars

\* The same for the ListGenome alone.
C16_ListScenario == [][ScenarioStep(ListScenarioAt(lg), ListObs(lg), ListObs(lg'), last', last'.l)]_vars

\* The scenario up to copy_te(2, 5), for the LinkedListGenome.
C16_LinkedScenarioToCopy ==
  [][(LinkedScenarioAt(llg) # 3) => ScenarioStep(LinkedScenarioAt(llg), LinkedObs(llg), LinkedObs(llg'), last', last'.ll)]_vars

\* The scenario has run to its end in both realizations.
C16_Reached == lg = ListScenario3 /\ llg = LinkedScenario3 /\ IsCall(last, "disable_te", 99, 0)

-----------------------------------------------------------------------------
\* The position an insertion goes to, counted from 0 in a genome of length n:
\* insert_te(a, b) goes to a, copy_te(a, b) to b positions after the first of a.
Destination(c, own) == IF c.op = "insert_te" THEN PyMod(c.a, Len(own)) ELSE PyMod(FirstOwned(own, c.a) + c.b, Len(own))

\* The call c, with active set act and owners own before it and active set act2
\* after it, removed from the active set nothing, or only the TE owning its
\* destination.
RemovesOnlyCollidingTE(c, act, own, act2) ==
  \/ Range(act) \subseteq Range(act2)
  \/ Range(act) \ Range(act2) = {own[Destination(c, own) + 1]}

\* C17: insert_te(pos, length) and copy_te(te, offset) of an active te remove from
\* active_tes() only the TE that owns the destination position and no other id (so
\* none when that position is empty or disabled); in both realizations.
C17_DisablesOnlyCollidingTE ==
  [][(last'.op \in {"insert_te", "copy_te"}) =>
       /\ RemovesOnlyCollidingTE(last', ListGenome_active_tes(lg), ListOwners(lg), ListGenome_active_tes(lg'))
       /\ RemovesOnlyCollidingTE(last', LinkedListGenome_active_tes(llg), LinkedOwners(llg), LinkedListGenome_active_tes(llg'))]_vars

\* The same for the ListGenome alone.
C17_ListDisablesOnlyCollidingTE ==
  [][(last'.op \in {"insert_te", "copy_te"}) =>
       RemovesOnlyCollidingTE(last', ListGenome_active_tes(lg), ListOwners(lg), ListGenome_active_tes(lg'))]_vars

-----------------------------------------------------------------------------
\* The k nodes reached from node by following next, node included (None: the chain
\* ended before k nodes).
RECURSIVE AnchorRun(_, _, _)
AnchorRun(heap, node, k) == IF k <= 0 THEN <<>> ELSE IF node = None THEN <<None>> ELSE <<node>> \o AnchorRun(heap, heap[node].next, k - 1)

\* The entry [anchor, k] of t in active_TE names exactly the nodes of t, all active,
\* and disable_te(t) retags these nodes and no other.
AnchorOk(g, t) ==
  LET e == DictGet(g.active_TE, t)
      run == AnchorRun(g.heap, e[1], e[2])
      after == LinkedListGenome_disable_te(g, t)
  IN /\ Len(run) = e[2]
     /\ None \notin Range(run)
     /\ \A n \in Range(run) : g.heap[n].te_id = t /\ g.heap[n].te = 1
     /\ {n \in 1..Len(g.heap) : g.heap[n].te_id = t} = Range(run)
     /\ after.exc = "none"
     /\ after.g.heap = [n \in 1..Len(g.heap) |-> IF n \in Range(run) THEN [g.heap[n] EXCEPT !.te = 2] ELSE g.heap[n]]

\* C18: in the LinkedListGenome, for every id t in active_TE with entry [anchor, k],
\* the k nodes from anchor all exist, all have te_id = t and tag 1, and no other node
\* has te_id = t; so disable_te(t) retags exactly the nodes of t.
C18_AnchorInvariant == \A t \in Range(LinkedListGenome_active_tes(llg)) : AnchorOk(llg, t)

\* C18 happens: two TEs of two nodes each are active after a call that returned, and
\* the chain has a node of another TE or an empty node after each of them.
C18_Witness ==
  /\ last.ll.exc = "none"
  /\ Len(llg.active_TE) = 2
  /\ \A i \in 1..2 : llg.active_TE[i].v[2] = 2 /\ Walk(llg.heap, llg.active_TE[i].v[1], 2) # None

\* The nodes met by following next from node until it is None (cut off after fuel
\* nodes, which a chain that returns to a node of itself reaches).
RECURSIVE Chain(_, _, _)
Chain(heap, node, fuel) == IF node = None \/ fuel = 0 THEN <<>> ELSE <<node>> \o Chain(heap, heap[node].next, fuel - 1)

\* The chain from head has length links, no node twice, and __len__() counts length.
ChainOk(g, chain) ==
  /\ Len(chain) = g.length + 1
  /\ Cardinality(Range(chain)) = Len(chain)
  /\ LinkedListGenome_len(g) = g.length

\* C19: in the LinkedListGenome, following next from head never revisits a node and
\* reaches a node whose next is None after exactly self.length links, and __len__()
\* returns self.length.
C19_ChainShape == ChainOk(llg, Chain(llg.heap, llg.head, Len(llg.heap) + 1))

\* C19 happens: two TEs of two nodes each have been linked into the chain, one of
\* them not at its end.
C19_Witness ==
  /\ last.ll.exc = "none" /\ last.ll.ret = 2
  /\ llg.length = MaxN + 4
  /\ LinkedOwners(llg)[llg.length] # 2

====
